---------------------------- MODULE Spec2Model ----------------------------
(***************************************************************************)
(* A model of moviepy/video/tools/subtitles.py: the SubtitlesClip cue      *)
(* timeline, its lazy render cache (textclips) and in_subclip.             *)
(*                                                                         *)
(* A cue is the Python tuple ((ta, tb), txt), written <<<<ta, tb>>, txt>>. *)
(* Times are integers; the code only compares them (<=, <, max, min), so   *)
(* the order of the integers stands for the order of the floats.           *)
(* Python's None is the empty tuple <<>>; an optional number n is <<n>>.   *)
(* A render artifact (the object make_textclip returns) is identified by   *)
(* the number of the renderer invocation that produced it.                 *)
(***************************************************************************)
EXTENDS Integers, Sequences, FiniteSets, TLC

VARIABLES
    subtitles,   \* self.subtitles: the cue list
    textclips,   \* self.textclips: dict cue -> artifact, in insertion order
    ssrt,        \* the ssrt flag captured by add_textclip_if_none
    sub_styles,  \* the closure variable sub_styles: bound or not, and its keys
    hasmask,     \* bool(self.make_textclip("T").mask): is self.mask exposed
    nart,        \* artifacts the renderer has returned so far (the probe is 1)
    renders,     \* per cue: renderer invocations by queries that returned
    last,        \* the last completed operation and what it returned
    answered,    \* per query time: the first (cue, artifact) a query returned
    resolved,    \* the cues queries have resolved so far
    thr,         \* per thread: where it is inside make_frame / make_mask_frame
    rendered_by, \* per cue: the operation whose query rendered it (SpecShared)
    start,       \* self.start
    duration,    \* self.duration
    end          \* self.end

vars == <<subtitles, textclips, ssrt, sub_styles, hasmask, nart, renders,
          last, answered, resolved, thr, rendered_by, start, duration, end>>

\* The fields of lines 131-133, which no method assigns again.
span == <<start, duration, end>>

-----------------------------------------------------------------------------
(* Bounds *)

MaxTime == 2
MaxCues == 2
MaxSubTime == 3
MaxSubCues == 2
NThreads == 2

Texts == {"", "a"}

None == <<>>

\* Cues with ta < MaxT and tb <= MaxT: every active interval (ta < tb) with
\* the text "a", every active interval that starts at 0 with the empty text
\* as well (two cues on one interval, and a cue without a style entry), one
\* empty interval (0, 0) and one reversed interval (1, 0). A cue that is never
\* active is never looked up by key, so its text is not varied.
CueSet(MaxT) ==
    {c \in ((0 .. MaxT - 1) \X (0 .. MaxT)) \X Texts :
        \/ c[1][1] < c[1][2] /\ (c[2] = "a" \/ c[1][1] = 0)
        \/ c[2] = "a" /\ c[1][2] = 0 /\ c[1][1] <= 1}

SeqsUpTo(S, n) == UNION {[1 .. k -> S] : k \in 1 .. n}

QueryTimes == 0 .. MaxTime

Threads == 1 .. NThreads

-----------------------------------------------------------------------------
(* Cues and the cache dict *)

Start(cue) == cue[1][1]
End(cue) == cue[1][2]
Text(cue) == cue[2]

CuesOf(subs) == {subs[i] : i \in 1 .. Len(subs)}

Max2(a, b) == IF a >= b THEN a ELSE b
Min2(a, b) == IF a <= b THEN a ELSE b

\* self.textclips.keys(), in insertion order
Keys(tc) == [i \in 1 .. Len(tc) |-> tc[i].key]

\* sub in self.textclips.keys()
HasKey(tc, sub) == \E i \in 1 .. Len(tc) : tc[i].key = sub

\* self.textclips[sub]
Get(tc, sub) == tc[CHOOSE i \in 1 .. Len(tc) : tc[i].key = sub].clip

\* A cache that keeps only the entry stored last.
PutEvicts(tc, sub, clip) == <<[key |-> sub, clip |-> clip]>>

\* self.textclips[sub] = clip: a new key goes last, a present key keeps its
\* place and takes the new value
Put(tc, sub, clip) ==
    IF HasKey(tc, sub)
    THEN [i \in 1 .. Len(tc) |->
            IF tc[i].key = sub THEN [key |-> sub, clip |-> clip] ELSE tc[i]]
    ELSE Append(tc, [key |-> sub, clip |-> clip])

\* An entry created before the renderer has returned.
PutRaisedStores(tc, sub) == Append(tc, [key |-> sub, clip |-> 0])

\* self.textclips[sub] = self.make_textclip(...) when make_textclip raises:
\* the exception leaves the statement before the store happens
PutRaised(tc, sub) == tc

-----------------------------------------------------------------------------
(* add_textclip_if_none, lines 135-164 *)

\* A closed interval.
CoversClosed(cue, t) == Start(cue) <= t /\ t <= End(cue)

\* text_start <= t < text_end
Covers(cue, t) == Start(cue) <= t /\ t < End(cue)

\* [cue for cue in self.textclips.keys() if text_start <= t < text_end]
CachedAt(tc, t) == SelectSeq(Keys(tc), LAMBDA cue : Covers(cue, t))

\* [cue for cue in self.subtitles if text_start <= t < text_end]
ListedAt(subs, t) == SelectSeq(subs, LAMBDA cue : Covers(cue, t))

\* The cached cue taken from the end of the list: sub[-1] for sub[0].
LookupLastCached(tc, subs, t) ==
    IF CachedAt(tc, t) # << >> THEN CachedAt(tc, t)[Len(CachedAt(tc, t))]
    ELSE IF ListedAt(subs, t) # << >> THEN ListedAt(subs, t)[1]
    ELSE None

\* The timeline searched without consulting the cache first.
LookupListedFirst(tc, subs, t) ==
    IF ListedAt(subs, t) # << >> THEN ListedAt(subs, t)[1] ELSE None

\* Lines 145-153, given the list the comprehension over the cache produced:
\* the cue `sub`, or None where the code returns False.
Pick(cached, subs, t) ==
    IF cached # << >> THEN cached[1]
    ELSE IF ListedAt(subs, t) # << >> THEN ListedAt(subs, t)[1]
    ELSE None

\* Lines 140-153, the comprehension over the cache run without interruption.
Lookup(tc, subs, t) == Pick(CachedAt(tc, t), subs, t)

\* No membership test: every query renders.
NeedsRenderAlways(tc, sub) == TRUE

\* sub not in self.textclips.keys()
NeedsRender(tc, sub) == ~HasKey(tc, sub)

\* Every cue has a style entry.
StyleFoundAlways(styles, sub) == TRUE

\* Line 156, sub in sub_styles. Reading the unbound closure variable raises
\* NameError, which like the explicit raise of line 160 ends the query.
StyleFound(styles, sub) == styles.bound /\ sub \in styles.keys

\* np.array([[[0, 0, 0]]]) and np.array([[0]]): an array is its shape and its
\* elements in row-major order.
BlankFrame == [shape |-> <<1, 1, 3>>, data |-> <<0, 0, 0>>]
BlankMask == [shape |-> <<1, 1>>, data |-> <<0>>]

\* One sentinel for both operations.
BlankSame(op) == BlankFrame

Blank(op) == IF op = "make_frame" THEN BlankFrame ELSE BlankMask

Ops == {"make_frame", "make_mask_frame"}

IsQuery(r) == r.op \in Ops

\* What an operation returned: the cue it resolved, how it ended (kind), the
\* artifact whose frame or mask it returned, the renderer invocations it made
\* and, for a blank or a list, the value.
Result(op, t, sub, kind, art, calls, value) ==
    [op |-> op, args |-> <<t>>, sub |-> sub, kind |-> kind, art |-> art,
     calls |-> calls, value |-> value,
     again |-> IsQuery([op |-> op]) /\ answered[t] # None]

\* The first (cue, artifact) returned for each query time.
Note(ans, t, sub, art) ==
    IF ans[t] = None THEN [ans EXCEPT ![t] = <<sub, art>>] ELSE ans

Idle ==
    [pc |-> "idle", op |-> "none", t |-> None, sub |-> None, art |-> None,
     used |-> 0, pos |-> 0, found |-> << >>, calls |-> 0]

\* make_frame(t) / make_mask_frame(t), lines 166-172, run without interruption.
Query(op, t) ==
    LET sub == Lookup(textclips, subtitles, t) IN
    /\ \A th \in Threads : thr[th].pc = "idle"
    /\ UNCHANGED <<span, subtitles, ssrt, sub_styles, hasmask, thr>>
    /\ IF sub = None
       THEN /\ last' = Result(op, t, None, "blank", None, 0, Blank(op))
            /\ UNCHANGED <<textclips, nart, renders, answered, resolved>>
       ELSE
       /\ resolved' = resolved \cup {sub}
       /\ IF ~NeedsRender(textclips, sub)
          THEN /\ last' = Result(op, t, sub, "clip", <<Get(textclips, sub)>>,
                                 0, None)
               /\ answered' = Note(answered, t, sub, Get(textclips, sub))
               /\ UNCHANGED <<textclips, nart, renders>>
          ELSE IF ssrt /\ ~StyleFound(sub_styles, sub)
          THEN /\ last' = Result(op, t, sub, "StyleError", None, 0, None)
               /\ UNCHANGED <<textclips, nart, renders, answered>>
          ELSE
          \* self.make_textclip(...) returns an artifact, or raises
          \/ /\ nart' = nart + 1
             /\ renders' = [renders EXCEPT ![sub] = @ + 1]
             /\ textclips' = Put(textclips, sub, nart + 1)
             /\ last' = Result(op, t, sub, "clip",
                               <<Get(textclips', sub)>>, 1, None)
             /\ answered' = Note(answered, t, sub, Get(textclips', sub))
          \/ /\ textclips' = PutRaised(textclips, sub)
             /\ last' = Result(op, t, sub, "RenderFailure", None, 1, None)
             /\ UNCHANGED <<nart, renders, answered>>

make_frame ==
    /\ \E t \in QueryTimes : Query("make_frame", t)
    /\ UNCHANGED rendered_by

\* self.mask = VideoClip(make_mask_frame, is_mask=True) if hasmask else None
make_mask_frame ==
    /\ hasmask
    /\ \E t \in QueryTimes : Query("make_mask_frame", t)
    /\ UNCHANGED rendered_by

-----------------------------------------------------------------------------
(* SubtitlesClip.__init__, lines 45-176 *)

Styles(subs) ==
    {[bound |-> FALSE, keys |-> {}]}
    \cup {[bound |-> TRUE, keys |-> {c \in CuesOf(subs) : Text(c) # ""}]}

\* max([tb for ((ta, tb), txt) in self.subtitles]), line 132.
MaxEnd(subs) ==
    CHOOSE m \in {End(subs[i]) : i \in 1 .. Len(subs)} :
        \A i \in 1 .. Len(subs) : End(subs[i]) <= m

\* VideoClip(make_mask_frame, is_mask=True), line 176. VideoClip is not part of
\* the file, and __init__ hands it the closure make_mask_frame: while it
\* builds the mask clip it either keeps the function without calling it, or
\* evaluates it at t = 0 (as a constructor does that reads the frame size off
\* the first frame). These are the times at which it calls make_mask_frame.
VideoClipQueries == {<< >>, <<0>>}

\* The cue the queries qs made during construction resolve, the cache being
\* empty (line 62): None when there is no query or no cue is active.
FirstShown(subs, qs) ==
    IF qs = << >> THEN None ELSE Lookup(<< >>, subs, qs[1])

\* self.textclips when __init__ returns: what those queries stored. The probe
\* make_textclip("T") of line 175 is artifact 1 and is not stored, so the
\* render of a construction-time query is artifact 2.
FirstCache(subs, qs) ==
    IF FirstShown(subs, qs) = None THEN << >>
    ELSE Put(<< >>, FirstShown(subs, qs), 2)

\* The state __init__ leaves when it returns. A construction whose
\* make_mask_frame(0) raises (no style entry for the cue, or the renderer
\* raises) leaves no clip.
Constructed(subs) ==
    /\ subtitles = subs
    /\ ssrt \in BOOLEAN
    /\ sub_styles \in IF ssrt THEN Styles(subs)
                     ELSE {[bound |-> FALSE, keys |-> {}]}
    /\ hasmask \in BOOLEAN
    /\ start = 0
    /\ duration = MaxEnd(subs)
    /\ end = duration
    /\ last = [op |-> "init", args |-> << >>, sub |-> None, kind |-> "none",
               art |-> None, calls |-> 0, value |-> None, again |-> FALSE]
    /\ thr = [th \in Threads |-> Idle]
    /\ \E qs \in IF hasmask THEN VideoClipQueries ELSE {<< >>} :
          LET sub == FirstShown(subs, qs) IN
          IF sub # None
          THEN /\ ~ssrt \/ StyleFound(sub_styles, sub)
               /\ textclips = FirstCache(subs, qs)
               /\ nart = 2
               /\ renders = [c \in CuesOf(subs) |-> IF c = sub THEN 1 ELSE 0]
               /\ answered = Note([t \in QueryTimes |-> None], qs[1], sub, 2)
               /\ resolved = {sub}
               /\ rendered_by = [c \in CuesOf(subs) |->
                                    IF c = sub THEN "make_mask_frame"
                                    ELSE "none"]
          ELSE /\ textclips = << >>
               /\ nart = 1
               /\ renders = [c \in CuesOf(subs) |-> 0]
               /\ answered = [t \in QueryTimes |-> None]
               /\ resolved = {}
               /\ rendered_by = [c \in CuesOf(subs) |-> "none"]

Init == \E subs \in SeqsUpTo(CueSet(MaxTime), MaxCues) : Constructed(subs)

Next == make_frame \/ make_mask_frame

Spec == Init /\ [][Next]_vars

-----------------------------------------------------------------------------
(* in_subclip, lines 178-200 *)

\* The times in_subclip is called with: None, or a number.
OptTimes(MaxT) == {None} \cup {<<n>> : n \in 0 .. MaxT}

\* Lines 184-188. A comparison with None raises TypeError, which the except
\* clause turns into False; the comparisons run left to right and a chain
\* stops at its first false link.
is_in_subclip(start_time, end_time, t1, t2) ==
    IF start_time = None THEN FALSE
    ELSE IF start_time[1] <= t1
    THEN IF end_time = None THEN FALSE
         ELSE IF t1 < end_time[1] THEN TRUE
         ELSE start_time[1] < t2 /\ t2 <= end_time[1]
    ELSE IF start_time[1] < t2
    THEN IF end_time = None THEN FALSE ELSE t2 <= end_time[1]
    ELSE FALSE

\* No cropping.
try_cropping_none(start_time, end_time, t1, t2) == <<t1, t2>>

\* Lines 190-194: max or min with None raises TypeError, and the except clause
\* returns the interval as it is.
try_cropping(start_time, end_time, t1, t2) ==
    IF start_time = None \/ end_time = None THEN <<t1, t2>>
    ELSE <<Max2(t1, start_time[1]), Min2(t2, end_time[1])>>

\* Lines 196-200: the list comprehension over self.subtitles.
in_subclip(subs, start_time, end_time) ==
    LET kept == SelectSeq(subs, LAMBDA cue :
                    is_in_subclip(start_time, end_time, Start(cue), End(cue)))
    IN [k \in 1 .. Len(kept) |->
           <<try_cropping(start_time, end_time, Start(kept[k]), End(kept[k])),
             Text(kept[k])>>]

\* in_subclip that crops self.subtitles in place.
InSubclipInPlace(MaxT) ==
    \E start_time \in OptTimes(MaxT), end_time \in OptTimes(MaxT) :
        /\ subtitles' = in_subclip(subtitles, start_time, end_time)
        /\ last' = [op |-> "in_subclip", args |-> <<start_time, end_time>>,
                    sub |-> None, kind |-> "list", art |-> None, calls |-> 0,
                    value |-> subtitles', again |-> FALSE]
        /\ UNCHANGED <<span, textclips, ssrt, sub_styles, hasmask, nart,
                       renders, answered, resolved, thr, rendered_by>>

InSubclip(MaxT) ==
    \E start_time \in OptTimes(MaxT), end_time \in OptTimes(MaxT) :
        /\ \A th \in Threads : thr[th].pc = "idle"
        /\ last' = [op |-> "in_subclip", args |-> <<start_time, end_time>>,
                    sub |-> None, kind |-> "list", art |-> None, calls |-> 0,
                    value |-> in_subclip(subtitles, start_time, end_time),
                    again |-> FALSE]
        /\ UNCHANGED <<span, subtitles, textclips, ssrt, sub_styles, hasmask,
                       nart, renders, answered, resolved, thr, rendered_by>>

InitSubclip ==
    \E subs \in SeqsUpTo(CueSet(MaxSubTime), MaxSubCues) :
        Constructed(subs) /\ ~ssrt /\ hasmask

\* One call per behaviour: in_subclip reads self.subtitles only and writes
\* nothing, so a call that follows another starts from the same program state.
NextSubclip == last.op = "init" /\ InSubclip(MaxSubTime)

SpecSubclip == InitSubclip /\ [][NextSubclip]_vars

-----------------------------------------------------------------------------
(* Queries from several threads. add_textclip_if_none takes no lock: a      *)
(* thread can be suspended between any two of its accesses to              *)
(* self.textclips, which are the creation of the iterator over             *)
(* self.textclips.keys() and each of its steps (line 140), the membership  *)
(* test of line 154, the store of lines 158/162 and the read of lines      *)
(* 168/172, and while it is inside the renderer callback.                  *)

\* The thread between calls, holding the cue and the artifact its last call
\* returned.
ReturnedTo(r, art) ==
    [pc |-> "idle", op |-> "none", t |-> None, sub |-> r.sub, art |-> art,
     used |-> 0, pos |-> 0, found |-> << >>, calls |-> 0]

\* make_frame(t) / make_mask_frame(t) is called, and line 140 creates the
\* iterator over self.textclips.keys(): it notes the size of the dict.
TEnter(th, op, t) ==
    /\ thr[th].pc = "idle"
    /\ thr' = [thr EXCEPT ![th] =
                 [pc |-> "next", op |-> op, t |-> <<t>>, sub |-> None,
                  art |-> None, used |-> Len(textclips), pos |-> 1,
                  found |-> << >>, calls |-> 0]]
    /\ UNCHANGED <<span, subtitles, textclips, ssrt, sub_styles, hasmask,
                   nart, renders, last, answered, resolved, rendered_by>>

\* One step of the iterator of line 140. If the size of the dict is no longer
\* the size the iterator noted, the step raises RuntimeError (dictionary
\* changed size during iteration) out of make_frame / make_mask_frame.
\* Otherwise it yields the next key, which the comprehension keeps when it
\* covers t, or it is exhausted and the call runs lines 145-153: sub[0] of
\* the keys kept, else of the cues of self.subtitles that cover t, else
\* return False and the blank frame.
TNext(th) ==
    LET r == thr[th]
        t == r.t[1]
        sub == Pick(r.found, subtitles, t)
    IN
    /\ r.pc = "next"
    /\ UNCHANGED <<span, subtitles, textclips, ssrt, sub_styles, hasmask,
                   nart, renders, answered, rendered_by>>
    /\ IF Len(textclips) # r.used
       THEN /\ last' = Result(r.op, t, None, "RuntimeError", None, 0, None)
            /\ thr' = [thr EXCEPT ![th] = Idle]
            /\ UNCHANGED resolved
       ELSE IF r.pos <= Len(textclips)
       THEN /\ thr' = [thr EXCEPT
                         ![th].pos = r.pos + 1,
                         ![th].found =
                             IF Covers(textclips[r.pos].key, t)
                             THEN Append(r.found, textclips[r.pos].key)
                             ELSE r.found]
            /\ UNCHANGED <<last, resolved>>
       ELSE IF sub = None
       THEN /\ last' = Result(r.op, t, None, "blank", None, 0, Blank(r.op))
            /\ thr' = [thr EXCEPT ![th] = Idle]
            /\ UNCHANGED resolved
       ELSE /\ thr' = [thr EXCEPT ![th].pc = "member", ![th].sub = sub,
                                  ![th].pos = 0, ![th].used = 0,
                                  ![th].found = << >>]
            /\ resolved' = resolved \cup {sub}
            /\ UNCHANGED last

\* Lines 154-160: the membership test, and with ssrt the test of line 156,
\* whose failure raises.
TMember(th) ==
    LET r == thr[th] IN
    /\ r.pc = "member"
    /\ UNCHANGED <<span, subtitles, textclips, ssrt, sub_styles, hasmask,
                   nart, renders, answered, resolved, rendered_by>>
    /\ IF ~NeedsRender(textclips, r.sub)
       THEN /\ thr' = [thr EXCEPT ![th].pc = "read"]
            /\ UNCHANGED last
       ELSE IF ssrt /\ ~StyleFound(sub_styles, r.sub)
       THEN /\ last' = Result(r.op, r.t[1], r.sub, "StyleError", None, 0, None)
            /\ thr' = [thr EXCEPT ![th] = Idle]
       ELSE /\ thr' = [thr EXCEPT ![th].pc = "render"]
            /\ UNCHANGED last

\* self.make_textclip(...) returns an artifact to the thread, or raises.
TRender(th) ==
    /\ thr[th].pc = "render"
    /\ UNCHANGED <<span, subtitles, textclips, ssrt, sub_styles, hasmask,
                   answered, resolved, rendered_by>>
    /\ \/ /\ nart' = nart + 1
          /\ renders' = [renders EXCEPT ![thr[th].sub] = @ + 1]
          /\ thr' = [thr EXCEPT ![th].pc = "store", ![th].art = <<nart + 1>>,
                                ![th].calls = 1]
          /\ UNCHANGED last
       \/ /\ last' = Result(thr[th].op, thr[th].t[1], thr[th].sub,
                             "RenderFailure", None, 1, None)
          /\ thr' = [thr EXCEPT ![th] = Idle]
          /\ UNCHANGED <<nart, renders>>

\* Lines 158/162: self.textclips[sub] = <the artifact the thread rendered>.
TStore(th) ==
    /\ thr[th].pc = "store"
    /\ textclips' = Put(textclips, thr[th].sub, thr[th].art[1])
    /\ thr' = [thr EXCEPT ![th].pc = "read"]
    /\ UNCHANGED <<span, subtitles, ssrt, sub_styles, hasmask, nart, renders,
                   last, answered, resolved, rendered_by>>

\* Lines 168/172: add_textclip_if_none has returned sub, and the call returns
\* the frame (mask) of self.textclips[sub], the artifact the dict holds for
\* the cue now.
TRead(th) ==
    LET r == thr[th] IN
    /\ r.pc = "read"
    /\ last' = Result(r.op, r.t[1], r.sub, "clip", <<Get(textclips, r.sub)>>,
                      r.calls, None)
    /\ thr' = [thr EXCEPT ![th] = ReturnedTo(r, <<Get(textclips, r.sub)>>)]
    /\ UNCHANGED <<span, subtitles, textclips, ssrt, sub_styles, hasmask,
                   nart, renders, answered, resolved, rendered_by>>

NextThreads ==
    \E th \in Threads :
        \/ \E t \in QueryTimes : TEnter(th, "make_frame", t)
        \/ hasmask /\ \E t \in QueryTimes : TEnter(th, "make_mask_frame", t)
        \/ TNext(th)
        \/ TMember(th)
        \/ TRender(th)
        \/ TStore(th)
        \/ TRead(th)

\* The clips the threads share: every list of cues that are active somewhere,
\* all with one text (the interleavings do not depend on the text), built
\* without ssrt, or with ssrt from a list, which leaves sub_styles unbound. A
\* clip whose style table has an entry for every cue behaves as one built
\* without ssrt.
InitThreads ==
    \E subs \in SeqsUpTo({c \in CueSet(MaxTime) :
                            Text(c) = "a" /\ Start(c) < End(c)}, MaxCues) :
        Constructed(subs) /\ ~sub_styles.bound

SpecThreads == InitThreads /\ [][NextThreads]_vars

-----------------------------------------------------------------------------
(* match_expr, lines 217-221, and the construction of the clip it returns *)

MaxMatchEnd == 2
MaxMatchCues == 3

\* The cue texts and the expressions of the match_expr session.
MatchTexts == {"", "a", "b", "ab"}
Exprs == {"", "a", "b", "ab", "ba", ".", "a."}

\* The characters of a Python str.
Chars(str) ==
    CASE str = "" -> << >>
      [] str = "a" -> <<"a">>
      [] str = "b" -> <<"b">>
      [] str = "ab" -> <<"a", "b">>
      [] str = "ba" -> <<"b", "a">>
      [] str = "." -> <<".">>
      [] str = "a." -> <<"a", ".">>
      [] str = "foo" -> <<"f", "o", "o">>
      [] str = "hello" -> <<"h", "e", "l", "l", "o">>
      [] str = "hello world" ->
            <<"h", "e", "l", "l", "o", " ", "w", "o", "r", "l", "d">>
      [] str = "hello again" ->
            <<"h", "e", "l", "l", "o", " ", "a", "g", "a", "i", "n">>

\* The expression, a sequence of literal characters and dots, matches the
\* characters of txt that start at position i; a dot matches any character
\* (the texts hold no newline).
MatchAt(expr, txt, i) ==
    /\ i + Len(Chars(expr)) - 1 <= Len(Chars(txt))
    /\ \A j \in 1 .. Len(Chars(expr)) :
          \/ Chars(expr)[j] = "."
          \/ Chars(expr)[j] = Chars(txt)[i + j - 1]

\* Matching at position 1 only, as re.match does.
findall_anchored(expr, txt) == MatchAt(expr, txt, 1)

\* re.findall(expr, txt) != []: the expression matches at some position of
\* txt, the position after the last character included.
findall(expr, txt) ==
    \E i \in 1 .. Len(Chars(txt)) + 1 : MatchAt(expr, txt, i)

\* A constructor that accepts an empty list, with duration 0.
SubtitlesClipOfAny(subs, qs) ==
    [kind |-> "SubtitlesClip", subtitles |-> subs,
     textclips |-> IF subs = << >> THEN << >> ELSE FirstCache(subs, qs),
     start |-> <<0>>,
     duration |-> IF subs = << >> THEN <<0>> ELSE <<MaxEnd(subs)>>,
     end |-> IF subs = << >> THEN <<0>> ELSE <<MaxEnd(subs)>>]

\* SubtitlesClip(subs) with the default renderer: the fields __init__ gives
\* the new clip, lines 61-62, 131-133 and 176, qs being the queries the
\* construction of its mask clip makes (none when the renderer gives no
\* mask). max() of an empty list raises ValueError. The renderer (TextClip)
\* is taken to return.
SubtitlesClip(subs, qs) ==
    IF subs = << >>
    THEN [kind |-> "ValueError", subtitles |-> None, textclips |-> None,
          start |-> None, duration |-> None, end |-> None]
    ELSE [kind |-> "SubtitlesClip", subtitles |-> subs,
          textclips |-> FirstCache(subs, qs),
          start |-> <<0>>, duration |-> <<MaxEnd(subs)>>,
          end |-> <<MaxEnd(subs)>>]

\* The first matching cue only.
match_expr_first(subs, expr, qs) ==
    LET kept == SelectSeq(subs, LAMBDA sub : findall(expr, Text(sub)))
    IN SubtitlesClip(SubSeq(kept, 1, 1), qs)

\* Lines 219-221.
match_expr(subs, expr, qs) ==
    SubtitlesClip(SelectSeq(subs, LAMBDA sub : findall(expr, Text(sub))), qs)

MatchExpr(E) ==
    \E expr \in E, qs \in VideoClipQueries :
        /\ \A th \in Threads : thr[th].pc = "idle"
        /\ last' = [op |-> "match_expr", args |-> <<expr>>, sub |-> None,
                    kind |-> match_expr(subtitles, expr, qs).kind,
                    art |-> None, calls |-> 0,
                    value |-> match_expr(subtitles, expr, qs),
                    again |-> FALSE]
        /\ UNCHANGED <<span, subtitles, textclips, ssrt, sub_styles, hasmask,
                       nart, renders, answered, resolved, thr, rendered_by>>

MatchCues == ({0} \X (1 .. MaxMatchEnd)) \X MatchTexts

InitMatch ==
    \E subs \in SeqsUpTo(MatchCues, MaxMatchCues) :
        Constructed(subs) /\ ~ssrt /\ hasmask

\* One call per behaviour: match_expr reads self.subtitles only and writes
\* nothing to the clip it is called on.
NextMatch == last.op = "init" /\ MatchExpr(Exprs)

SpecMatch == InitMatch /\ [][NextMatch]_vars

-----------------------------------------------------------------------------
(* __iter__, __getitem__ and __str__, lines 202-215, and a session that    *)
(* mixes every operation of a clip                                         *)

MaxOpsTime == 2
MaxOpsCues == 1

\* What an operation that is not a query returned.
Returned(op, args, kind, value) ==
    [op |-> op, args |-> args, sub |-> None, kind |-> kind, art |-> None,
     calls |-> 0, value |-> value, again |-> FALSE]

\* Lines 202-203: iter(self.subtitles), read to its end.
Iter ==
    /\ last' = Returned("__iter__", << >>, "list", subtitles)
    /\ UNCHANGED <<span, subtitles, textclips, ssrt, sub_styles, hasmask,
                   nart, renders, answered, resolved, thr, rendered_by>>

\* Lines 205-206: self.subtitles[k], k counted from 0, or from the end when
\* negative; a position past the end raises IndexError.
GetItem ==
    \E k \in -1 .. MaxOpsCues + 1 :
        /\ last' = IF k >= Len(subtitles)
                   THEN Returned("__getitem__", <<k>>, "IndexError", None)
                   ELSE IF k < 0
                   THEN Returned("__getitem__", <<k>>, "cue",
                                 subtitles[Len(subtitles) + 1 + k])
                   ELSE Returned("__getitem__", <<k>>, "cue", subtitles[k + 1])
        /\ UNCHANGED <<span, subtitles, textclips, ssrt, sub_styles, hasmask,
                       nart, renders, answered, resolved, thr, rendered_by>>

\* Lines 209-215: one block <<start, end, text>> per cue, in list order (the
\* blocks are joined by an empty line). The times of a cue are numbers, which
\* convert_to_seconds (lines 211-212) returns as they are.
to_srt(sub_element) ==
    <<Start(sub_element), End(sub_element), Text(sub_element)>>

Str ==
    /\ last' = Returned("__str__", << >>, "str",
                        [k \in 1 .. Len(subtitles) |-> to_srt(subtitles[k])])
    /\ UNCHANGED <<span, subtitles, textclips, ssrt, sub_styles, hasmask,
                   nart, renders, answered, resolved, thr, rendered_by>>

InitOps ==
    \E subs \in SeqsUpTo(CueSet(MaxOpsTime), MaxOpsCues) : Constructed(subs)

\* in_subclip is called with bounds up to MaxOpsTime - 1, inside the span of
\* the cues, so that it drops cues and crops them.
NextOps ==
    \/ make_frame
    \/ make_mask_frame
    \/ InSubclip(MaxOpsTime - 1)
    \/ MatchExpr({"", "a", "b"})
    \/ Str
    \/ Iter
    \/ GetItem

SpecOps == InitOps /\ [][NextOps]_vars

-----------------------------------------------------------------------------
(* make_frame and make_mask_frame on a clip that has a mask, with the      *)
(* operation that first rendered each cue recorded                         *)

TrackedQuery(op) ==
    /\ \E t \in QueryTimes : Query(op, t)
    /\ rendered_by' =
          [c \in DOMAIN rendered_by |->
              IF rendered_by[c] = "none" /\ renders'[c] > renders[c]
              THEN op ELSE rendered_by[c]]

\* The cues of this session all carry the text "a": which operation asks does
\* not depend on the text.
InitShared ==
    \E subs \in SeqsUpTo({c \in CueSet(MaxTime) : Text(c) = "a"}, MaxCues) :
        Constructed(subs) /\ ~ssrt /\ hasmask

NextShared ==
    \/ TrackedQuery("make_frame")
    \/ hasmask /\ TrackedQuery("make_mask_frame")

SpecShared == InitShared /\ [][NextShared]_vars

-----------------------------------------------------------------------------
(* file_to_subtitles, lines 229-253 *)

MaxLines == 5
MaxStamp == 1

\* A line of the file is a timestamp line (re.findall of line 244 finds one
\* timestamp or more in it), a blank line (line.strip() == ""), or any other
\* line. A timestamp "HH:MM:SS,mmm" is <<hours, minutes, seconds, millis>>;
\* a text is the sequence of its lines, the empty string the empty sequence.
Stamp(s) == <<0, 0, s, 0>>

FileLines ==
    {[kind |-> "times", times |-> <<Stamp(a), Stamp(a + 1)>>, text |-> ""] :
        a \in 0 .. MaxStamp - 1}
    \cup {[kind |-> "times", times |-> <<Stamp(0)>>, text |-> ""]}
    \cup {[kind |-> "blank", times |-> << >>, text |-> ""]}
    \cup {[kind |-> "text", times |-> << >>, text |-> x] : x \in {"x", "y"}}

Files == UNION {[1 .. k -> FileLines] : k \in 0 .. MaxLines}

\* convert_to_seconds of a timestamp whose milliseconds are whole seconds.
convert_to_seconds(time) ==
    3600 * time[1] + 60 * time[2] + time[3] + time[4] \div 1000

\* One turn of the loop of lines 243-251.
ReadLine(st, line) ==
    IF line.kind = "times"
    THEN [st EXCEPT !.current_times =
            [k \in 1 .. Len(line.times) |-> convert_to_seconds(line.times[k])]]
    ELSE IF line.kind = "blank"
    THEN [times_texts |-> Append(st.times_texts,
                                 <<st.current_times, st.current_text>>),
          current_times |-> None,
          current_text |-> << >>]
    ELSE IF st.current_times # None
    THEN [st EXCEPT !.current_text = Append(@, line.text)]
    ELSE st

RECURSIVE ReadLines(_, _, _)
ReadLines(st, f, k) ==
    IF k > Len(f) THEN st ELSE ReadLines(ReadLine(st, f[k]), f, k + 1)

\* Lines 238-253.
file_to_subtitles(f) ==
    ReadLines([times_texts |-> << >>, current_times |-> None,
               current_text |-> << >>], f, 1).times_texts

FileToSubtitles ==
    \E f \in Files :
        /\ last' = Returned("file_to_subtitles", <<f>>, "list",
                            file_to_subtitles(f))
        /\ UNCHANGED <<span, subtitles, textclips, ssrt, sub_styles, hasmask,
                       nart, renders, answered, resolved, thr, rendered_by>>

-----------------------------------------------------------------------------
(* ssrt_to_subtitles, lines 255-296 *)

MaxStyledEnd == 1
MaxWords == 2
MaxStyledLines == 2

\* A word of the JSON data: its text, and its other keys (font, size, color
\* and so on) as one style number.
StyledWords ==
    {[text |-> "a", style |-> 1], [text |-> "a", style |-> 2],
     [text |-> "b", style |-> 1]}

\* A line object: timestamps in milliseconds and a words list.
StyledLines ==
    {[startTimestamp |-> 0, endTimestamp |-> 1000 * e, words |-> ws] :
        e \in 1 .. MaxStyledEnd,
        ws \in UNION {[1 .. k -> StyledWords] : k \in 0 .. MaxWords}}

StyledData == UNION {[1 .. k -> StyledLines] : k \in 0 .. MaxStyledLines}

\* Lines 279-281: line_text += word["text"] + " " for each word.
RECURSIVE LineText(_, _)
LineText(words, j) ==
    IF j > Len(words) THEN ""
    ELSE (words[j].text \o " ") \o LineText(words, j + 1)

\* Line 288: word["text"] += " ".
Spaced(word) == [word EXCEPT !.text = @ \o " "]

\* Lines 290-295: ss[sub] = [word], or the word appended to ss[sub]. The dict
\* ss is the sequence of its (key, words) items in insertion order.
AddWord(ss, sub, word) ==
    IF \E i \in 1 .. Len(ss) : ss[i].key = sub
    THEN [i \in 1 .. Len(ss) |->
            IF ss[i].key = sub
            THEN [ss[i] EXCEPT !.words = Append(@, word)] ELSE ss[i]]
    ELSE Append(ss, [key |-> sub, words |-> <<word>>])

\* Lines 286-295: the second loop over line["words"].
RECURSIVE AddWords(_, _, _, _)
AddWords(ss, sub, words, j) ==
    IF j > Len(words) THEN ss
    ELSE AddWords(AddWord(ss, sub, Spaced(words[j])), sub, words, j + 1)

\* Lines 274-284: the cue of a line object.
SubOf(line) ==
    <<<<line.startTimestamp \div 1000, line.endTimestamp \div 1000>>,
      LineText(line.words, 1)>>

\* Lines 273-295: for line in data.
RECURSIVE ReadData(_, _, _)
ReadData(st, data, k) ==
    IF k > Len(data) THEN st
    ELSE ReadData([subtitles |-> Append(st.subtitles, SubOf(data[k])),
                   ss |-> AddWords(st.ss, SubOf(data[k]), data[k].words, 1)],
                  data, k + 1)

\* Lines 270-296: returns [subtitles, ss].
ssrt_to_subtitles(data) ==
    LET st == ReadData([subtitles |-> << >>, ss |-> << >>], data, 1)
    IN <<st.subtitles, st.ss>>

SsrtToSubtitles ==
    \E data \in StyledData :
        /\ last' = Returned("ssrt_to_subtitles", <<data>>, "list",
                            ssrt_to_subtitles(data))
        /\ UNCHANGED <<span, subtitles, textclips, ssrt, sub_styles, hasmask,
                       nart, renders, answered, resolved, thr, rendered_by>>

\* The parsers are module functions; the session calls one of them once, next
\* to a clip of one cue.
InitParse == Constructed(<< <<<<0, 1>>, "a">> >>) /\ ~ssrt /\ hasmask

NextParse ==
    \/ last.op = "init" /\ FileToSubtitles
    \/ last.op = "init" /\ SsrtToSubtitles

SpecParse == InitParse /\ [][NextParse]_vars

-----------------------------------------------------------------------------
(* Properties of the single-threaded session (Spec) *)

\* The cue at position i is active at t: start <= t < end.
ActiveAt(i, t) == subtitles[i][1][1] <= t /\ t < subtitles[i][1][2]

\* Some entry of cache tc has a key whose interval holds t.
CachedCover(tc, t) ==
    \E i \in 1 .. Len(tc) : tc[i].key[1][1] <= t /\ t < tc[i].key[1][2]

\* C1: the renderer returns at most once per distinct cue (cues compared as
\* ((start, end), text) values), so in a session without renderer failures it
\* is invoked at most once per cue; and a query whose resolved cue is already
\* in the cache returns the stored artifact without invoking the renderer.
C1_RenderedOncePerCue ==
    /\ [](\A c \in CuesOf(subtitles) : renders[c] <= 1)
    /\ [][(IsQuery(last') /\ last'.sub # None /\ HasKey(textclips, last'.sub))
            => /\ last'.calls = 0
               /\ last'.kind = "clip"
               /\ \E i \in 1 .. Len(textclips) :
                     /\ textclips[i].key = last'.sub
                     /\ last'.art = <<textclips[i].clip>>
               /\ renders' = renders
               /\ nart' = nart]_vars

\* A cue listed twice has been rendered once and is now served from the cache.
C1_Witness ==
    /\ Len(subtitles) = 2
    /\ subtitles[1] = subtitles[2]
    /\ IsQuery(last)
    /\ last.sub = subtitles[1]
    /\ last.calls = 0
    /\ renders[subtitles[1]] = 1

\* C2: once a query at time t has returned a cue, every later query at t
\* returns that cue and that artifact, whatever was queried in between.
C2_ReferentialStability ==
    (IsQuery(last) /\ last.again)
        => /\ last.kind = "clip"
           /\ last.sub = answered[last.args[1]][1]
           /\ last.art = <<answered[last.args[1]][2]>>

\* A repeated query at t returns the cue it returned first although a second
\* cue, cached in between by a query at another time, is active at t too.
C2_Witness ==
    /\ IsQuery(last)
    /\ last.again
    /\ Len(subtitles) = 2
    /\ last.sub = subtitles[1]
    /\ subtitles[1] # subtitles[2]
    /\ ActiveAt(2, last.args[1])
    /\ HasKey(textclips, subtitles[2])

\* C3: if a cached cue is active at the query time, the resolved cue is a
\* cached one and nothing is rendered; otherwise the resolved cue is the first
\* cue of the timeline that is active at the query time (none if there is none).
C3_LookupTieBreak ==
    [][IsQuery(last') =>
        LET t == last'.args[1] IN
        IF CachedCover(textclips, t)
        THEN /\ \E i \in 1 .. Len(textclips) : textclips[i].key = last'.sub
             /\ last'.calls = 0
             /\ textclips' = textclips
        ELSE IF \E i \in 1 .. Len(subtitles) : ActiveAt(i, t)
        THEN \E i \in 1 .. Len(subtitles) :
                /\ ActiveAt(i, t)
                /\ \A j \in 1 .. i - 1 : ~ActiveAt(j, t)
                /\ last'.sub = subtitles[i]
        ELSE last'.sub = None]_vars

\* A cached cue was preferred to an unrendered cue listed before it.
C3_Witness ==
    /\ IsQuery(last)
    /\ last.calls = 0
    /\ Len(subtitles) = 2
    /\ last.sub = subtitles[2]
    /\ ActiveAt(1, last.args[1])
    /\ ~HasKey(textclips, subtitles[1])

\* C4: a resolved cue ((start, end), text) has start <= t < end; a cue is
\* resolved at t = start (when start < end), and a time that only ends cues,
\* or only meets cues with start >= end, resolves no cue.
C4_RightOpenInterval ==
    IsQuery(last) =>
        LET t == last.args[1] IN
        /\ last.sub # None => (last.sub[1][1] <= t /\ t < last.sub[1][2])
        /\ (\E i \in 1 .. Len(subtitles) :
                subtitles[i][1][1] = t /\ t < subtitles[i][1][2])
             => last.sub # None
        /\ (\A i \in 1 .. Len(subtitles) :
                \/ subtitles[i][1][2] = t
                \/ subtitles[i][1][1] >= subtitles[i][1][2])
             => last.sub = None

\* A query at t, where the first cue ends and the second starts, resolved
\* the second.
C4_Witness ==
    /\ IsQuery(last)
    /\ Len(subtitles) = 2
    /\ subtitles[1][1][1] < subtitles[1][1][2]
    /\ subtitles[1][1][2] = last.args[1]
    /\ subtitles[2][1][1] = last.args[1]
    /\ last.sub = subtitles[2]

\* C5: when the renderer raises, the query ends with that failure after one
\* invocation, the cache is as it was before the query and does not hold the
\* cue; the same query issued next resolves the same cue and invokes the
\* renderer again, as does any query that resolves a cue not in the cache
\* (styled mode without a style entry aside).
C5_RenderFailureNotCached ==
    /\ [][(IsQuery(last') /\ last'.kind = "RenderFailure")
            => /\ textclips' = textclips
               /\ \A i \in 1 .. Len(textclips') : textclips'[i].key # last'.sub
               /\ last'.calls = 1
               /\ last'.art = None
               /\ renders' = renders /\ nart' = nart]_vars
    /\ [][(last.kind = "RenderFailure" /\ IsQuery(last')
             /\ last'.args = last.args)
            => (last'.sub = last.sub /\ last'.calls = 1)]_vars
    /\ [][(IsQuery(last') /\ last'.sub # None
             /\ last'.kind # "StyleError"
             /\ \A i \in 1 .. Len(textclips) : textclips[i].key # last'.sub)
            => last'.calls = 1]_vars

\* The renderer failed for a cue while another cue was cached.
C5_Witness ==
    /\ last.kind = "RenderFailure"
    /\ last.calls = 1
    /\ Len(textclips) = 1
    /\ textclips[1].key # last.sub

\* C6: a query at a time at which no cue is active returns the blank
\* sentinel (one black pixel, shape (1, 1, 3), for the frame; one zero pixel,
\* shape (1, 1), for the mask) and no error, does not invoke the renderer and
\* leaves the cache unchanged.
C6_BlankSentinel ==
    [][(IsQuery(last')
         /\ \A i \in 1 .. Len(subtitles) : ~ActiveAt(i, last'.args[1]))
        => /\ last'.kind = "blank"
           /\ last'.op = "make_frame"
                => last'.value = [shape |-> <<1, 1, 3>>, data |-> <<0, 0, 0>>]
           /\ last'.op = "make_mask_frame"
                => last'.value = [shape |-> <<1, 1>>, data |-> <<0>>]
           /\ last'.calls = 0
           /\ textclips' = textclips
           /\ renders' = renders /\ nart' = nart]_vars

\* A mask query before the first cue, with a cue already cached.
C6_Witness ==
    /\ last.op = "make_mask_frame"
    /\ last.kind = "blank"
    /\ textclips # << >>
    /\ \A i \in 1 .. Len(subtitles) : last.args[1] < subtitles[i][1][1]

\* C8 as stated: the cache is empty right after construction (the probe
\* artifact is not stored), each query adds at most one entry, no entry is
\* removed or has its artifact replaced, every key is a cue of the timeline,
\* and there are no more entries than distinct cues resolved by queries.
C8_EmptyAfterConstruction ==
    /\ last.op = "init" => textclips = << >>
    /\ \A i \in 1 .. Len(textclips) :
          /\ \E k \in 1 .. Len(subtitles) : subtitles[k] = textclips[i].key
          /\ textclips[i].clip > 1
    /\ Len(textclips) <= Cardinality(resolved)

\* C8, amended: the cache is created empty and never holds the probe artifact.
\* Right after construction it holds at most one entry; a clip whose renderer
\* gives no mask, and a clip with no cue active at t = 0, has none; an entry
\* it holds is that of the first listed cue active at t = 0, with the first
\* artifact rendered after the probe, stored by a make_mask_frame(0) made
\* while the mask clip was built. From then on a step adds at most one entry
\* and leaves the entries it found in place with their artifacts; keys are
\* distinct cues of the timeline, and there are no more entries than distinct
\* cues resolved so far, the cue resolved during construction included.
C8_CacheAppendOnly ==
    /\ [](/\ last.op = "init"
             => /\ Len(textclips) <= 1
                /\ (~hasmask \/ ~\E i \in 1 .. Len(subtitles) : ActiveAt(i, 0))
                      => textclips = << >>
                /\ textclips # << >>
                      => /\ textclips[1].clip = 2
                         /\ \E i \in 1 .. Len(subtitles) :
                               /\ ActiveAt(i, 0)
                               /\ textclips[1].key = subtitles[i]
                               /\ \A j \in 1 .. i - 1 : ~ActiveAt(j, 0)
          /\ \A i \in 1 .. Len(textclips) :
                /\ \E k \in 1 .. Len(subtitles) : subtitles[k] = textclips[i].key
                /\ textclips[i].clip > 1
                /\ \A j \in 1 .. Len(textclips) :
                      textclips[j].key = textclips[i].key => j = i
          /\ Len(textclips) <= Cardinality(resolved))
    /\ [][/\ Len(textclips') <= Len(textclips) + 1
          /\ Len(textclips') >= Len(textclips)
          /\ \A i \in 1 .. Len(textclips) : textclips'[i] = textclips[i]]_vars

\* The entry stored while the clip was built (in a single-caller session
\* rendered_by is written by construction only) is still first, with its
\* artifact, after a query has appended a second entry and a third query has
\* been served the first one again.
C8_Witness ==
    /\ Len(textclips) = 2
    /\ rendered_by[textclips[1].key] = "make_mask_frame"
    /\ textclips[1].clip = 2
    /\ IsQuery(last)
    /\ last.calls = 0
    /\ last.sub = textclips[1].key
    /\ last.art = <<2>>

-----------------------------------------------------------------------------
(* Queries from several threads (SpecThreads) *)

\* C7: under every interleaving of concurrent queries each cue is rendered at
\* most once, and all threads that were served the same cue hold the same
\* artifact, as they would if check-cache / render / store were one atomic
\* section.
C7_AtomicCheckRenderStore ==
    /\ \A c \in CuesOf(subtitles) : renders[c] <= 1
    /\ \A th1 \in Threads, th2 \in Threads :
          (/\ thr[th1].pc = "idle" /\ thr[th2].pc = "idle"
           /\ thr[th1].sub # None /\ thr[th1].sub = thr[th2].sub)
          => thr[th1].art = thr[th2].art

-----------------------------------------------------------------------------
(* Properties of in_subclip (SpecSubclip) *)

\* The positions of the cues in_subclip keeps for numbers s and e.
KeptBy(s, e) ==
    {i \in 1 .. Len(subtitles) :
        \/ s <= subtitles[i][1][1] /\ subtitles[i][1][1] < e
        \/ s < subtitles[i][1][2] /\ subtitles[i][1][2] <= e}

\* The k-th smallest member of a set of positions.
Nth(S, k) == CHOOSE i \in S : Cardinality({j \in S : j <= i}) = k

Larger(a, b) == IF a > b THEN a ELSE b
Smaller(a, b) == IF a < b THEN a ELSE b

\* C9: for numbers start < end, in_subclip(start, end) returns, in timeline
\* order, exactly the cues ((t1, t2), text) with start <= t1 < end or
\* start < t2 <= end, each as ((max(t1, start), min(t2, end)), text); cues
\* [(0,5,a), (5,10,b), (10,15,c)] with (3, 12) give
\* [((3,5),a), ((5,10),b), ((10,12),c)].
C9_ClampedSubRange ==
    /\ (last.op = "in_subclip" /\ last.args[1] # None /\ last.args[2] # None
         /\ last.args[1][1] < last.args[2][1])
        => LET s == last.args[1][1]
               e == last.args[2][1]
           IN /\ Len(last.value) = Cardinality(KeptBy(s, e))
              /\ \A k \in 1 .. Len(last.value) :
                    LET cue == subtitles[Nth(KeptBy(s, e), k)] IN
                    last.value[k] =
                        <<<<Larger(cue[1][1], s), Smaller(cue[1][2], e)>>, cue[2]>>
    /\ in_subclip(<< <<<<0, 5>>, "a">>, <<<<5, 10>>, "b">>, <<<<10, 15>>, "c">> >>,
                  <<3>>, <<12>>)
         = << <<<<3, 5>>, "a">>, <<<<5, 10>>, "b">>, <<<<10, 12>>, "c">> >>

\* Two cues kept, the first cropped at its start, while the texts differ.
C9_Witness ==
    /\ last.op = "in_subclip"
    /\ last.args[1] # None /\ last.args[2] # None
    /\ last.args[1][1] < last.args[2][1]
    /\ Len(subtitles) = 2
    /\ Len(last.value) = 2
    /\ last.value[1][1][1] > subtitles[1][1][1]
    /\ last.value[1][2] # last.value[2][2]

\* C10: for numbers start < end, every cue that shares a time with
\* [start, end), a cue that starts before start and ends after end included,
\* is returned with its interval cropped, so every time of [start, end) at
\* which a cue is active lies in a returned interval.
C10_CoversSubclip ==
    (last.op = "in_subclip" /\ last.args[1] # None /\ last.args[2] # None
     /\ last.args[1][1] < last.args[2][1])
    => LET s == last.args[1][1]
           e == last.args[2][1]
       IN /\ \A i \in 1 .. Len(subtitles) :
                (/\ subtitles[i][1][1] < subtitles[i][1][2]
                 /\ subtitles[i][1][1] < e
                 /\ s < subtitles[i][1][2])
                => \E k \in 1 .. Len(last.value) :
                      last.value[k] =
                          <<<<Larger(subtitles[i][1][1], s),
                              Smaller(subtitles[i][1][2], e)>>, subtitles[i][2]>>
          /\ \A t \in s .. e - 1 :
                (\E i \in 1 .. Len(subtitles) : ActiveAt(i, t))
                => \E k \in 1 .. Len(last.value) :
                      last.value[k][1][1] <= t /\ t < last.value[k][1][2]

\* C11: with start_time and/or end_time None the overlap test and the cropping
\* pass through on the unspecified side, so cues are still returned:
\* in_subclip() returns every cue with its original interval, in_subclip(s)
\* returns unchanged every cue that starts at or after s, and
\* in_subclip(None, e) returns unchanged every cue that ends at or before e.
C11_OpenEndedPassThrough ==
    last.op = "in_subclip"
    => LET s == last.args[1]
           e == last.args[2]
       IN /\ (s = None /\ e = None) => last.value = subtitles
          /\ (s # None /\ e = None)
             => \A i \in 1 .. Len(subtitles) :
                   s[1] <= subtitles[i][1][1]
                   => \E k \in 1 .. Len(last.value) :
                         last.value[k] = subtitles[i]
          /\ (s = None /\ e # None)
             => \A i \in 1 .. Len(subtitles) :
                   subtitles[i][1][2] <= e[1]
                   => \E k \in 1 .. Len(last.value) :
                         last.value[k] = subtitles[i]

-----------------------------------------------------------------------------
(* Properties of match_expr and of construction (SpecMatch) *)

\* The positions of the cues whose text the expression matches.
Matching(expr) ==
    {i \in 1 .. Len(subtitles) : findall(expr, subtitles[i][2])}

\* C12: match_expr(expr) returns a new timeline whose cue list is exactly the
\* cues whose text matches expr, in timeline order and unchanged, and no other
\* cue; texts "hello world", "foo", "hello again" with "hello" give the first
\* and the third cue. (When no cue matches no timeline is returned, see C19.)
C12_FilterSubsequence ==
    /\ (last.op = "match_expr" /\ Matching(last.args[1]) # {})
        => /\ last.kind = "SubtitlesClip"
           /\ Len(last.value.subtitles) = Cardinality(Matching(last.args[1]))
           /\ \A k \in 1 .. Len(last.value.subtitles) :
                 last.value.subtitles[k]
                     = subtitles[Nth(Matching(last.args[1]), k)]
    /\ \A qs \in VideoClipQueries :
          match_expr(<< <<<<0, 1>>, "hello world">>, <<<<1, 2>>, "foo">>,
                        <<<<2, 3>>, "hello again">> >>, "hello", qs).subtitles
            = << <<<<0, 1>>, "hello world">>, <<<<2, 3>>, "hello again">> >>

\* Three cues, the first and the third kept and the second dropped.
C12_Witness ==
    /\ last.op = "match_expr"
    /\ Len(subtitles) = 3
    /\ Matching(last.args[1]) = {1, 3}
    /\ last.value.subtitles = <<subtitles[1], subtitles[3]>>
    /\ subtitles[1] # subtitles[3]

-----------------------------------------------------------------------------
(* Properties of a session of every operation (SpecOps) *)

\* C13: no operation (make_frame, make_mask_frame, in_subclip, match_expr,
\* __str__, __iter__, __getitem__) changes the cue list of the clip, and
\* in_subclip, match_expr and __str__ leave its cache as it is and do not
\* invoke its renderer.
C13_TimelineImmutable ==
    [][/\ subtitles' = subtitles
       /\ last'.op \in {"in_subclip", "match_expr", "__str__"}
          => /\ textclips' = textclips
             /\ nart' = nart
             /\ renders' = renders
             /\ last'.calls = 0]_vars

\* in_subclip has returned a list that differs from the cue list while the
\* cache holds an artifact for every cue.
C13_Witness ==
    /\ last.op = "in_subclip"
    /\ last.value # subtitles
    /\ Len(textclips) = Len(subtitles)
    /\ \A c \in CuesOf(subtitles) : renders[c] = 1

-----------------------------------------------------------------------------
(* Properties of styled mode and of the shared resolution *)

\* C14: with ssrt set, a query that resolves a cue that is not cached and has
\* no entry in sub_styles fails with an error the caller sees; the renderer is
\* not invoked for it and the cue is not cached. (A cue without a style entry
\* therefore never enters the cache.)
C14_MissingStyleFails ==
    (/\ IsQuery(last)
     /\ ssrt
     /\ last.sub # None
     /\ ~(sub_styles.bound /\ last.sub \in sub_styles.keys))
    => /\ last.kind = "StyleError"
       /\ last.calls = 0
       /\ last.art = None
       /\ renders[last.sub] = 0
       /\ ~HasKey(textclips, last.sub)

\* The side table is bound and holds no entry for the cue the query resolved,
\* while another cue, which has an entry, is cached.
C14_Witness ==
    /\ IsQuery(last)
    /\ ssrt
    /\ sub_styles.bound
    /\ last.sub # None
    /\ last.sub \notin sub_styles.keys
    /\ last.kind = "StyleError"
    /\ Len(textclips) = 1
    /\ textclips[1].key \in sub_styles.keys

\* The cue a query at t resolves in the current state, whichever operation
\* asks: the first cached cue active at t, else the first listed one.
ResolvesAt(t) ==
    IF \E i \in 1 .. Len(textclips) :
          textclips[i].key[1][1] <= t /\ t < textclips[i].key[1][2]
    THEN textclips[CHOOSE i \in 1 .. Len(textclips) :
                      /\ textclips[i].key[1][1] <= t /\ t < textclips[i].key[1][2]
                      /\ \A j \in 1 .. i - 1 :
                            ~(textclips[j].key[1][1] <= t
                              /\ t < textclips[j].key[1][2])].key
    ELSE IF \E i \in 1 .. Len(subtitles) : ActiveAt(i, t)
    THEN subtitles[CHOOSE i \in 1 .. Len(subtitles) :
                      ActiveAt(i, t) /\ \A j \in 1 .. i - 1 : ~ActiveAt(j, t)]
    ELSE None

\* C15: make_frame and make_mask_frame share one resolution and one cache: in
\* every state a query at t resolves the same cue whichever of the two asks,
\* and a cue first rendered by a query of one of them is not rendered again by
\* a later query of the other, which is served the stored artifact.
C15_SharedResolutionAndCache ==
    /\ [](/\ \A c \in CuesOf(subtitles) : renders[c] <= 1
          /\ (/\ IsQuery(last)
              /\ last.sub # None
              /\ rendered_by[last.sub] \notin {"none", last.op})
             => /\ last.calls = 0
                /\ last.kind = "clip"
                /\ last.art = <<Get(textclips, last.sub)>>)
    /\ [][\A op \in Ops, t \in QueryTimes :
             (last'.op = op /\ last'.args = <<t>>)
             => last'.sub = ResolvesAt(t)]_vars

\* One cue first rendered by make_mask_frame and now served to make_frame
\* without a render, the other first rendered by make_frame.
C15_Witness ==
    /\ last.op = "make_frame"
    /\ last.sub # None
    /\ rendered_by[last.sub] = "make_mask_frame"
    /\ last.calls = 0
    /\ \E c \in CuesOf(subtitles) : rendered_by[c] = "make_frame"

-----------------------------------------------------------------------------
(* Properties of file_to_subtitles (SpecParse) *)

\* The file is a sequence of well-formed blocks: a line of two timestamps, one
\* text line or more, a blank line; the blank line of the last block may be
\* missing.
WellFormed(f) ==
    /\ Len(f) > 0
    /\ f[1].kind = "times"
    /\ f[Len(f)].kind # "times"
    /\ \A k \in 1 .. Len(f) :
          /\ f[k].kind = "times"
             => Len(f[k].times) = 2 /\ f[k + 1].kind = "text"
          /\ (f[k].kind = "times" /\ k > 1) => f[k - 1].kind = "blank"
          /\ (f[k].kind = "blank" /\ k < Len(f)) => f[k + 1].kind = "times"
          /\ f[k].kind = "blank" => f[k - 1].kind = "text"

Blocks(f) == {k \in 1 .. Len(f) : f[k].kind = "times"}

\* C16: a file of N well-formed blocks gives N cues, one per block with the
\* interval of its timestamp line, whether or not a blank line follows the
\* last block.
C16_MissingFinalBlankLine ==
    (last.op = "file_to_subtitles" /\ WellFormed(last.args[1]))
    => /\ Len(last.value) = Cardinality(Blocks(last.args[1]))
       /\ \A n \in 1 .. Len(last.value) :
             LET line == last.args[1][Nth(Blocks(last.args[1]), n)] IN
             last.value[n][1] = <<line.times[1][3], line.times[2][3]>>

\* C18: every cue file_to_subtitles emits carries the interval of a timestamp
\* line; a blank line met while no timestamps are pending emits no cue whose
\* interval is None.
C18_NoCueWithoutInterval ==
    last.op = "file_to_subtitles"
    => \A n \in 1 .. Len(last.value) :
          /\ last.value[n][1] # None
          /\ \E k \in Blocks(last.args[1]) :
                last.value[n][1] =
                    [j \in 1 .. Len(last.args[1][k].times) |->
                        last.args[1][k].times[j][3]]

\* C17: ssrt_to_subtitles returns the cue list and the side table together:
\* for every cue of the list the side table holds an entry, and the entry is
\* the words list of the line the cue came from, in order; lines with an empty
\* words list and two lines that give equal cues included.
C17_SideTableComplete ==
    last.op = "ssrt_to_subtitles"
    => \A k \in 1 .. Len(last.args[1]) :
          \E i \in 1 .. Len(last.value[2]) :
             /\ last.value[2][i].key = last.value[1][k]
             /\ last.value[2][i].words =
                   [j \in 1 .. Len(last.args[1][k].words) |->
                       Spaced(last.args[1][k].words[j])]

-----------------------------------------------------------------------------
(* Construction (SpecMatch) *)

\* C19: a clip needs at least one cue. The clip built from a non-empty cue list
\* (the clip of the session, and the clip match_expr returns) has start = 0
\* and duration = end = the largest end of its cues; building
\* one from an empty list fails with an error, so match_expr with an
\* expression that matches no cue fails instead of returning an empty clip.
C19_AtLeastOneCue ==
    /\ last.op = "match_expr"
       => IF Matching(last.args[1]) = {}
          THEN last.kind = "ValueError" /\ last.value.subtitles = None
          ELSE /\ last.kind = "SubtitlesClip"
               /\ last.value.subtitles # << >>
               /\ last.value.start = <<0>>
               /\ last.value.end = last.value.duration
               /\ \E i \in Matching(last.args[1]) :
                     last.value.duration = <<subtitles[i][1][2]>>
               /\ \A i \in Matching(last.args[1]) :
                     subtitles[i][1][2] <= last.value.duration[1]
    /\ start = 0
    /\ end = duration
    /\ \E i \in 1 .. Len(subtitles) : duration = subtitles[i][1][2]
    /\ \A i \in 1 .. Len(subtitles) : subtitles[i][1][2] <= duration
    /\ \A qs \in VideoClipQueries : SubtitlesClip(<< >>, qs).kind = "ValueError"

\* A pattern that matches no cue of a two-cue clip has failed.
C19_Witness ==
    /\ last.op = "match_expr"
    /\ Len(subtitles) = 2
    /\ Matching(last.args[1]) = {}
    /\ last.kind = "ValueError"

=============================================================================
